---- MODULE Spec2Model ----
(***************************************************************************)
(* A model of thejoker's sample container (sampler/samples.py) and of its  *)
(* marginal-likelihood evaluator (sampler/likelihood.py).                   *)
(*                                                                         *)
(* Python objects are records, references to mutable objects are ids:      *)
(*   - a JokerSamples lives in a slot (1: the container the caller built,  *)
(*     2: a container derived from it or restored from storage);           *)
(*   - the memory of an array is named by `mem`; two arrays with the same  *)
(*     mem are views of the same buffer;                                   *)
(*   - a cache dictionary is named by an id, so that two containers can    *)
(*     hold the same dictionary object.                                    *)
(* An optional value is <<>> (None) or <<x>>.  A raised exception is the   *)
(* exc field of a result record.                                           *)
(***************************************************************************)
EXTENDS Integers, Sequences, FiniteSets, TLC

VARIABLES cont, nops, last, sink, caches, elems, held, gens, lik, thr

contVars == <<cont, nops, sink>>
orbVars == <<caches, elems, held, gens>>
vars == <<cont, nops, last, sink, caches, elems, held, gens, lik, thr>>

\* ---------------------------------------------------------------- bounds
MaxLen == 2
MaxOps == 2
MaxHeld == 4
MaxGens == 2
MaxEntry == 2
MaxBatch == 2

\* ------------------------------------------------------------ generalities
None == <<>>
Some(x) == <<x>>

OK == "ok"
InvalidKey == "InvalidKey"
ShapeMismatch == "ShapeMismatch"
NoSamplesStored == "NoSamplesStored"
TypeError == "TypeError"
KeyError == "KeyError"
IndexError == "IndexError"
AttributeError == "AttributeError"
ValueError == "ValueError"
LinAlgError == "LinAlgError"

Min(a, b) == IF a < b THEN a ELSE b
Max(a, b) == IF a > b THEN a ELSE b

Range(s) == {s[i] : i \in 1..Len(s)}

RECURSIVE Prod(_)
Prod(s) == IF s = <<>> THEN 1 ELSE Head(s) * Prod(Tail(s))

\* ----------------------------------------------------------------- numbers
\* A number is n/d (d = 0: NaN), or its square root when sq.
Num(n) == [n |-> n, d |-> 1, sq |-> FALSE]
NaN == [n |-> 0, d |-> 0, sq |-> FALSE]

RECURSIVE Gcd(_, _)
Gcd(a, b) == IF b = 0 THEN a ELSE Gcd(b, a % b)

Abs(x) == IF x < 0 THEN -x ELSE x

\* n/d in lowest terms, d > 0
Rat(n, d) == LET g == Gcd(Abs(n), d) IN [n |-> n \div g, d |-> d \div g, sq |-> FALSE]

IsSquare(x) == \E r \in 0..x : r * r = x
ISqrt(x) == CHOOSE r \in 0..x : r * r = x

\* the square root of the rational n/d (n >= 0, d > 0)
Sqrt(q) == IF IsSquare(q.n) /\ IsSquare(q.d) THEN Rat(ISqrt(q.n), ISqrt(q.d))
           ELSE [q EXCEPT !.sq = TRUE]

RAdd(a, b) == Rat(a.n * b.d + b.n * a.d, a.d * b.d)
RSub(a, b) == Rat(a.n * b.d - b.n * a.d, a.d * b.d)
RMul(a, b) == Rat(a.n * b.n, a.d * b.d)
\* a / b for b # 0
RDiv(a, b) == IF b.n < 0 THEN Rat(0 - a.n * b.d, a.d * (0 - b.n)) ELSE Rat(a.n * b.d, a.d * b.n)

RECURSIVE RSum(_)
RSum(s) == IF s = <<>> THEN Num(0) ELSE RAdd(Head(s), RSum(Tail(s)))

RLess(a, b) == a.n * b.d < b.n * a.d

\* s in ascending order
RECURSIVE SortNums(_)
SortNums(s) ==
  IF s = <<>> THEN <<>>
  ELSE LET t == SortNums(Tail(s))
           k == Cardinality({i \in 1..Len(t) : RLess(t[i], Head(s))})
       IN SubSeq(t, 1, k) \o <<Head(s)>> \o SubSeq(t, k + 1, Len(t))

\* the median: the middle element, or the mean of the two middle ones
MedianOf(s) ==
  LET t == SortNums(s)
      n == Len(s)
  IN IF n = 0 THEN NaN
     ELSE IF n % 2 = 1 THEN t[(n + 1) \div 2]
     ELSE RDiv(RAdd(t[n \div 2], t[n \div 2 + 1]), Num(2))

RECURSIVE SumSeq(_)
SumSeq(s) == IF s = <<>> THEN 0 ELSE Head(s) + SumSeq(Tail(s))

\* ------------------------------------------------------------------ arrays
\* shape: the numpy shape; data: the elements, row-major; mem, off: the
\* buffer the array lives in and where it starts there.
CallerMem == <<0, "arg">>
ArgMem(v) == <<0 - v, "arg">>
SlotMem(slot, key) == <<slot, key>>

Arr(shape, data, mem, off) == [shape |-> shape, data |-> data, mem |-> mem, off |-> off]

\* numpy's val.size
ArrSize(a) == Prod(a.shape)

\* (mutant) the value is kept as passed, without a copy
Quantity_view(val, mem) == val

\* u.Quantity(val): copy=True by default, so the result owns new memory.
Quantity(val, mem) == [val EXCEPT !.mem = mem, !.off = 0]

\* ------------------------------------------------------------ JokerSamples
valid_keys == <<"P", "M0", "e", "omega", "jitter", "K", "v0">>

Res(exc, obj) == [exc |-> exc, obj |-> obj]

\* The object __init__ has before it assigns the keyword arrays.
EmptySamples(t0, dict) ==
  [t0 |-> t0, keys |-> <<>>, store |-> <<>>, size |-> None, shape |-> None,
   cache |-> dict]

\* (mutant) the list of names spells omega with a capital
validate_key_typo(key) ==
  IF key \notin {"P", "M0", "e", "Omega", "jitter", "K", "v0"} THEN InvalidKey ELSE OK

validate_key(key) == IF key \notin Range(valid_keys) THEN InvalidKey ELSE OK

\* The shape property (read inside _validate_val and by callers).
shape(self) == IF self.shape = None THEN Res(NoSamplesStored, None)
               ELSE Res(OK, self.shape)

size(self) == IF self.size = None THEN Res(NoSamplesStored, None)
              ELSE Res(OK, self.size)

\* The error message is formatted from len(val), which itself raises
\* TypeError for a scalar-shaped value.
validate_val(self, val, mem) ==
  LET q == Quantity(val, mem) IN
    IF self.shape # None /\ q.shape # shape(self).obj[1]
    THEN IF q.shape = <<>> THEN Res(TypeError, q) ELSE Res(ShapeMismatch, q)
    ELSE Res(OK, q)

\* OrderedDict.__setitem__: a new key goes last, an old key keeps its place.
DictSet(self, key, q) ==
  [self EXCEPT
     !.keys = IF key \in Range(self.keys) THEN self.keys ELSE Append(self.keys, key),
     !.store = [k \in (DOMAIN self.store) \cup {key} |->
                  IF k = key THEN q ELSE self.store[k]]]

\* (mutant) the first assignment records the shape and forgets the size
setitem_nosize(self, slot, key, val) ==
  IF validate_key(key) # OK THEN Res(validate_key(key), self)
  ELSE LET v == validate_val(self, val, SlotMem(slot, key)) IN
    IF v.exc # OK THEN Res(v.exc, self)
    ELSE LET s1 == IF self.shape = None
                   THEN [self EXCEPT !.shape = Some(v.obj.shape)]
                   ELSE self
         IN Res(OK, DictSet(s1, key, v.obj))

\* (mutant) the value is stored before it is validated
setitem_late(self, slot, key, val) ==
  IF validate_key(key) # OK THEN Res(validate_key(key), self)
  ELSE LET v == validate_val(self, val, SlotMem(slot, key)) IN
    IF v.exc # OK THEN Res(v.exc, DictSet(self, key, v.obj))
    ELSE LET s1 == IF self.shape = None
                   THEN [self EXCEPT !.shape = Some(v.obj.shape),
                                     !.size = Some(ArrSize(v.obj))]
                   ELSE self
         IN Res(OK, DictSet(s1, key, v.obj))

\* self[key] = val
setitem(self, slot, key, val) ==
  IF validate_key(key) # OK THEN Res(validate_key(key), self)
  ELSE LET v == validate_val(self, val, SlotMem(slot, key)) IN
    IF v.exc # OK THEN Res(v.exc, self)
    ELSE LET s1 == IF self.shape = None
                   THEN [self EXCEPT !.shape = Some(v.obj.shape),
                                     !.size = Some(ArrSize(v.obj))]
                   ELSE self
         IN Res(OK, DictSet(s1, key, v.obj))

\* self[key] = val for every pair of kw, in order; stops at the first raise.
RECURSIVE SetAll(_, _, _)
SetAll(self, slot, kw) ==
  IF kw = <<>> THEN Res(OK, self)
  ELSE LET r == setitem(self, slot, Head(kw)[1], Head(kw)[2]) IN
    IF r.exc # OK THEN r ELSE SetAll(r.obj, slot, Tail(kw))

\* JokerSamples(t0, **kwargs); dict names the new cache dictionary.
init(t0, kw, slot, dict) == SetAll(EmptySamples(t0, dict), slot, kw)


\* self.items(), in insertion order
items(self) == [i \in 1..Len(self.keys) |-> <<self.keys[i], self.store[self.keys[i]]>>]

\* Python's slice.indices for i:j on an axis of length n
SliceIdx(i, n) == IF i < 0 THEN Max(n + i, 0) ELSE Min(i, n)

\* val[i:j]: a view of the same memory; a scalar Quantity raises TypeError.
getslice(a, i, j) ==
  IF a.shape = <<>> THEN Res(TypeError, a)
  ELSE LET n == a.shape[1]
           w == Prod(Tail(a.shape))
           lo == SliceIdx(i, n)
           hi == Max(SliceIdx(j, n), lo)
       IN Res(OK, Arr(<<hi - lo>> \o Tail(a.shape),
                      SubSeq(a.data, lo * w + 1, hi * w),
                      a.mem, a.off + lo * w))

\* copy.copy(self): __reduce_ex__ gives (cls, (), state, None, items), so the
\* copy is cls() with self's attributes put in its __dict__ (the same t0 and
\* the same _cache dictionary) and every item assigned through __setitem__.
copy_copy(self, slot, dict) ==
  LET y == [EmptySamples(None, dict) EXCEPT
              !.t0 = self.t0, !.size = self.size, !.shape = self.shape,
              !.cache = self.cache]
  IN SetAll(y, slot, items(self))

\* for k in self.keys(): new[k] = self[k][slc]
RECURSIVE SliceAll(_, _, _, _, _, _)
SliceAll(new, self, slot, ks, i, j) ==
  IF ks = <<>> THEN Res(OK, new)
  ELSE LET v == getslice(self.store[Head(ks)], i, j) IN
    IF v.exc # OK THEN Res(v.exc, new)
    ELSE LET r == setitem(new, slot, Head(ks), v.obj) IN
      IF r.exc # OK THEN r ELSE SliceAll(r.obj, self, slot, Tail(ks), i, j)

\* self[i:j] (the non-string branch of __getitem__)
getitem_slice(self, slot, dict, i, j) ==
  LET c == copy_copy(self, slot, dict) IN
    IF c.exc # OK THEN c
    ELSE SliceAll([c.obj EXCEPT !.size = None, !.shape = None],
                  self, slot, self.keys, i, j)

\* An in-place write to the buffer mem at position pos reaches every stored
\* array that is a view of that buffer and covers the position.
WriteMem(cs, mem, pos, v) ==
  [c \in DOMAIN cs |->
     IF cs[c] = None THEN None
     ELSE Some([cs[c][1] EXCEPT !.store =
            [k \in DOMAIN cs[c][1].store |->
               LET a == cs[c][1].store[k] IN
                 IF a.mem = mem /\ a.off <= pos /\ pos < a.off + Len(a.data)
                 THEN [a EXCEPT !.data[pos - a.off + 1] = v]
                 ELSE a]])]


\* ---------------------------------------------------------------- reductions
\* The elements reduced are plain rationals; over a common denominator D
\* the element x is the integer x.n * (D / x.d).
RECURSIVE CommonDen(_)
CommonDen(s) == IF s = <<>> THEN 1
                ELSE LET r == CommonDen(Tail(s)) d == Head(s).d
                     IN (d * r) \div Gcd(d, r)

Scaled(s) == [i \in 1..Len(s) |-> s[i].n * (CommonDen(s) \div s[i].d)]

Scalar(x, mem) == Arr(<<>>, <<x>>, mem, 0)

\* np.mean(a): over all elements; NaN for an empty array
np_mean(a) ==
  IF a.data = <<>> THEN Scalar(NaN, CallerMem)
  ELSE Scalar(Rat(SumSeq(Scaled(a.data)), CommonDen(a.data) * Len(a.data)), CallerMem)

\* (mutant) the variance: the square root is not taken
np_std_var(a) ==
  IF a.data = <<>> THEN Scalar(NaN, CallerMem)
  ELSE LET x == Scaled(a.data)
           N == Len(x)
           D == CommonDen(a.data)
           sq == SumSeq([i \in 1..N |-> x[i] * x[i]])
       IN Scalar(Rat(N * sq - SumSeq(x) * SumSeq(x), N * N * D * D), CallerMem)

\* np.std(a): sqrt(mean(|x - mean|^2)) = sqrt(N*sum(x^2) - sum(x)^2) / (N*D)
np_std(a) ==
  IF a.data = <<>> THEN Scalar(NaN, CallerMem)
  ELSE LET x == Scaled(a.data)
           N == Len(x)
           D == CommonDen(a.data)
           sq == SumSeq([i \in 1..N |-> x[i] * x[i]])
       IN Scalar(Sqrt(Rat(N * sq - SumSeq(x) * SumSeq(x), N * N * D * D)), CallerMem)

NpFunc(f, a) == IF f = "np.std" THEN np_std(a) ELSE np_mean(a)

\* (mutant) the new container is given the parent's t0
apply_t0(self, func, slot, dict) ==
  init(self.t0, [i \in 1..Len(self.keys) |->
                   <<self.keys[i], NpFunc(func, self.store[self.keys[i]])>>],
       slot, dict)

\* _apply(func): kw[k] = func(self[k]) for every key, then cls(**kw)
apply(self, func, slot, dict) ==
  init(None, [i \in 1..Len(self.keys) |->
                <<self.keys[i], NpFunc(func, self.store[self.keys[i]])>>],
       slot, dict)

mean(self, slot, dict) == apply(self, "np.mean", slot, dict)

\* (mutant) the median of every key: the middle of the sorted samples
median_true(self, slot, dict) ==
  init(None, [i \in 1..Len(self.keys) |->
                <<self.keys[i], Scalar(MedianOf(self.store[self.keys[i]].data), CallerMem)>>],
       slot, dict)

\* median() passes np.mean to _apply
median(self, slot, dict) == apply(self, "np.mean", slot, dict)
std(self, slot, dict) == apply(self, "np.std", slot, dict)

\* --------------------------------------------------------------- persistence
\* A reference epoch: an astropy Time (in a time scale) or a bare number.
Time(scale, mjd) == [kind |-> "Time", scale |-> scale, mjd |-> mjd]
Numeric(x) == [kind |-> "numeric", scale |-> "", mjd |-> x]

\* t.tcb.mjd: the epoch on the TCB scale (UTC runs one unit behind it here)
tcb_mjd(t) == IF t.scale = "tcb" THEN t.mjd ELSE t.mjd + 1

\* A storage group: named datasets and the optional attribute t0_bmjd.
EmptyFile == [ds |-> <<>>, t0_bmjd |-> None]
FileMem == <<0, "file">>

\* quantity_to_hdf5(f, key, q): the dataset key holds q's values (and unit)
quantity_to_hdf5(f, key, q) ==
  [f EXCEPT !.ds = [k \in (DOMAIN f.ds) \cup {key} |->
                      IF k = key THEN Arr(q.shape, q.data, FileMem, 0) ELSE f.ds[k]]]

\* quantity_from_hdf5(f, key, n): the dataset's first n rows, all of them
\* when n is None
quantity_from_hdf5(f, key, n) ==
  LET a == f.ds[key] IN
    IF n = None \/ a.shape = <<>> THEN a ELSE getslice(a, 0, n[1]).obj

RECURSIVE WriteAll(_, _, _)
WriteAll(f, self, ks) ==
  IF ks = <<>> THEN f
  ELSE WriteAll(quantity_to_hdf5(f, Head(ks), self.store[Head(ks)]), self, Tail(ks))

\* to_hdf5(f): the datasets first, then the epoch; self.t0.tcb raises
\* AttributeError when t0 is a number.
to_hdf5(self, f) ==
  LET g == WriteAll(f, self, self.keys) IN
    IF self.t0 = None THEN Res(OK, g)
    ELSE IF self.t0[1].kind # "Time" THEN Res(AttributeError, g)
    ELSE Res(OK, [g EXCEPT !.t0_bmjd = Some(tcb_mjd(self.t0[1]))])

\* (mutant) every dataset is read whole: n is not passed on
RECURSIVE ReadAll_whole(_, _, _, _, _)
ReadAll_whole(samples, slot, f, n, ks) ==
  IF ks = <<>> THEN Res(OK, samples)
  ELSE IF Head(ks) \notin DOMAIN f.ds THEN ReadAll_whole(samples, slot, f, n, Tail(ks))
  ELSE LET r == setitem(samples, slot, Head(ks), quantity_from_hdf5(f, Head(ks), None)) IN
    IF r.exc # OK THEN r ELSE ReadAll_whole(r.obj, slot, f, n, Tail(ks))

\* for key in cls._valid_keys: if key in f: samples[key] = ...
RECURSIVE ReadAll(_, _, _, _, _)
ReadAll(samples, slot, f, n, ks) ==
  IF ks = <<>> THEN Res(OK, samples)
  ELSE IF Head(ks) \notin DOMAIN f.ds THEN ReadAll(samples, slot, f, n, Tail(ks))
  ELSE LET r == setitem(samples, slot, Head(ks), quantity_from_hdf5(f, Head(ks), n)) IN
    IF r.exc # OK THEN r ELSE ReadAll(r.obj, slot, f, n, Tail(ks))

\* from_hdf5(f, n)
from_hdf5(f, n, slot, dict) ==
  LET t0 == IF f.t0_bmjd # None THEN Some(Time("tcb", f.t0_bmjd[1])) ELSE None
      e == init(t0, <<>>, slot, dict)
  IN IF e.exc # OK THEN e ELSE ReadAll(e.obj, slot, f, n, valid_keys)

\* ----------------------------------------------------------- orbits (twobody)
\* (mutant) the lookup validates the name as __setitem__ does
getitem_str_validating(self, key) ==
  IF validate_key(key) # OK THEN Res(validate_key(key), None)
  ELSE IF key \in DOMAIN self.store THEN Res(OK, self.store[key]) ELSE Res(KeyError, None)

\* self[key] for a string key: OrderedDict.__getitem__
getitem_str(self, key) ==
  IF key \in DOMAIN self.store THEN Res(OK, self.store[key]) ELSE Res(KeyError, None)

\* a[index]: the row index of the first axis (a negative index counts from
\* the end), as the sequence of its elements
getindex(a, index) ==
  IF a.shape = <<>> THEN Res(TypeError, <<>>)
  ELSE LET n == a.shape[1]
           w == Prod(Tail(a.shape))
           r == IF index < 0 THEN n + index ELSE index
       IN IF r < 0 \/ r >= n THEN Res(IndexError, <<>>)
          ELSE Res(OK, SubSeq(a.data, r * w + 1, (r + 1) * w))

\* self[key][index]
sample(self, key, index) ==
  LET a == getitem_str(self, key) IN
    IF a.exc # OK THEN Res(a.exc, <<>>) ELSE getindex(a.obj, index)

\* The elements object KeplerOrbit(P=1 yr, e=0, omega=0, Omega=0, i=90 deg,
\* a=1 au, t0=t0) builds.
TemplateElements(t0) ==
  [P |-> <<Num(1)>>, e |-> <<Num(0)>>, a |-> <<<<Num(1)>>>>, omega |-> <<Num(0)>>,
   M0 |-> <<Num(0)>>, t0 |-> t0]

\* An orbit object: a reference to its elements object, and its own _v0.
Orbit(el, v0) == [elements |-> el, v0 |-> v0]

\* copy.copy(orbit): a new KeplerOrbit with the same attribute values, so the
\* same elements object.
copy_orbit(o, fresh) == Orbit(o.elements, o.v0)

\* a_K = P * K / (2 pi) * sqrt(1 - e**2), kept as the triple it is computed from
a_K(P, K, e) == <<P, K, e>>

GetRes(exc, cs, es, o) == [exc |-> exc, caches |-> cs, elems |-> es, orbit |-> o]

\* get_orbit(index).  cs: the cache dictionaries; es: the elements objects.
\* The elements object a new template gets is named after the dictionary.
get_orbit(self, index, cs, es) ==
  LET d == self.cache
      cs1 == IF cs[d] = None THEN [cs EXCEPT ![d] = Some(Orbit(d, None))] ELSE cs
      es1 == IF cs[d] = None THEN [es EXCEPT ![d] = TemplateElements(self.t0)] ELSE es
      orbit == copy_orbit(cs1[d][1], 0)
      el == orbit.elements
      P == sample(self, "P", index)
      e == sample(self, "e", index)
      K == sample(self, "K", index)
      es2 == [es1 EXCEPT ![el].P = P.obj, ![el].e = e.obj,
                         ![el].a = a_K(P.obj, K.obj, e.obj)]
      omega == sample(self, "omega", index)
      es3 == [es2 EXCEPT ![el].omega = omega.obj]
      M0 == sample(self, "M0", index)
      es4 == [es3 EXCEPT ![el].M0 = M0.obj]
      v0 == sample(self, "v0", index)
  IN IF P.exc # OK THEN GetRes(P.exc, cs1, es1, orbit)
     ELSE IF e.exc # OK THEN GetRes(e.exc, cs1, es1, orbit)
     ELSE IF K.exc # OK THEN GetRes(K.exc, cs1, es1, orbit)
     ELSE IF omega.exc # OK THEN GetRes(omega.exc, cs1, es2, orbit)
     ELSE IF M0.exc # OK THEN GetRes(M0.exc, cs1, es3, orbit)
     ELSE IF v0.exc # OK THEN GetRes(v0.exc, cs1, es4, orbit)
     ELSE GetRes(OK, cs1, es4, Orbit(el, Some(v0.obj)))

\* len(self): __len__ returns n_samples, which is size
len(self) == size(self)

\* ------------------------------------------------------- marginal likelihood
\* Vectors are sequences of rationals, matrices sequences of rows.
Transpose(A) == [j \in 1..Len(A[1]) |-> [i \in 1..Len(A) |-> A[i][j]]]

\* numpy's A.dot(B) for two matrices, and A.dot(v) for a vector
MatMul(A, B) ==
  [i \in 1..Len(A) |-> [k \in 1..Len(B[1]) |->
     RSum([j \in 1..Len(B) |-> RMul(A[i][j], B[j][k])])]]
MatVec(A, v) == [i \in 1..Len(A) |-> RSum([j \in 1..Len(v) |-> RMul(A[i][j], v[j])])]

Drop(s, k) == [i \in 1..(Len(s) - 1) |-> IF i < k THEN s[i] ELSE s[i + 1]]

\* the determinant, expanded along the first row
RECURSIVE Det(_)
Det(M) ==
  IF Len(M) = 0 THEN Num(1)
  ELSE RSum([c \in 1..Len(M) |->
         LET minor == [r \in 1..(Len(M) - 1) |-> Drop(M[r + 1], c)]
             term == RMul(M[1][c], Det(minor))
         IN IF c % 2 = 1 THEN term ELSE RSub(Num(0), term)])

\* np.linalg.solve(M, b): LinAlgError when M is singular; otherwise the
\* solution (Cramer's rule gives the same vector as the LU solve).
linalg_solve(M, b) ==
  IF Det(M).n = 0 THEN Res(LinAlgError, <<>>)
  ELSE Res(OK, [j \in 1..Len(M) |->
         RDiv(Det([r \in 1..Len(M) |-> [c \in 1..Len(M) |->
                     IF c = j THEN b[r] ELSE M[r][c]]]), Det(M))])

\* np.linalg.slogdet(M): the sign of the determinant and log|det|, the
\* logarithm kept as its argument
linalg_slogdet(M) ==
  LET d == Det(M) IN
    [sign |-> IF d.n > 0 THEN 1 ELSE IF d.n < 0 THEN -1 ELSE 0,
     absdet |-> [d EXCEPT !.n = Abs(d.n)]]

\* rv_from_elements (thejoker/celestialmechanics): the radial velocity at
\* every time; a periodic response of amplitude K stands for the Kepler
\* solution.
rv_from_elements(times, P, K, e, omega, phi0) ==
  [i \in 1..Len(times) |-> Num(K * ((times[i] + phi0 + e + omega) % P))]

\* np.vander(t, N=n, increasing=True): row i is t[i]^0 .. t[i]^(n-1)
RECURSIVE Pow(_, _)
Pow(x, k) == IF k = 0 THEN 1 ELSE x * Pow(x, k - 1)
vander(t, n) == [i \in 1..Len(t) |-> [k \in 1..n |-> Num(Pow(t[i], k - 1))]]

\* design_matrix(nonlinear_p, data, jparams): one row per linear parameter
\* (the transpose of [zdot | vander])
design_matrix(nonlinear_p, data, jparams) ==
  LET t == data.t
      P == nonlinear_p[1]
      phi0 == nonlinear_p[2]
      ecc == nonlinear_p[3]
      omega == nonlinear_p[4]
      zdot == rv_from_elements(t, P, 1, ecc, omega, phi0 - (data.t_offset % P))
      A1 == vander(t, jparams.n_terms)
  IN Transpose([i \in 1..Len(t) |-> <<zdot[i]>> \o A1[i]])

\* The number of arguments design_matrix must be called with.
design_matrix_nparams == 3

\* A call of design_matrix with the positional arguments args: Python raises
\* TypeError unless the required arguments are all there.
call_design_matrix(args) ==
  IF Len(args) # design_matrix_nparams THEN Res(TypeError, <<>>)
  ELSE Res(OK, design_matrix(args[1], args[2], args[3]))

\* What tensor_vector_scalar returns.
TVS(exc, M, p, chi2) == [exc |-> exc, ATCinvA |-> M, p |-> p, chi2 |-> chi2]

\* tensor_vector_scalar(A, ivar, y), for A, ivar and y of at least two rows.
\* A.T * ivar[None] scales column i of A.T by ivar[i], which needs one ivar
\* per row of A (numpy raises ValueError when the shapes do not broadcast);
\* the solve comes before anything looks at the matrix.
tensor_vector_scalar(A, ivar, y) ==
  IF Len(ivar) # Len(A) \/ Len(y) # Len(A) THEN TVS(ValueError, <<>>, <<>>, NaN)
  ELSE LET ATCinv == [j \in 1..Len(A[1]) |-> [i \in 1..Len(A) |-> RMul(A[i][j], ivar[i])]]
           ATCinvA == MatMul(ATCinv, A)
           p == linalg_solve(ATCinvA, MatVec(ATCinv, y))
       IN IF p.exc # OK THEN TVS(p.exc, ATCinvA, <<>>, NaN)
          ELSE LET Ap == MatVec(A, p.obj)
                   dy == [i \in 1..Len(A) |-> RSub(Ap[i], y[i])]
               IN TVS(OK, ATCinvA, p.obj,
                      RSum([i \in 1..Len(A) |-> RMul(RMul(dy[i], dy[i]), ivar[i])]))

\* get_ivar(data, s) (thejoker/sampler/utils): 1 / (1/ivar + s^2)
get_ivar(data, s) ==
  [i \in 1..Len(data.ivar) |-> RDiv(data.ivar[i], RAdd(Num(1), RMul(Num(s * s), data.ivar[i])))]

\* A returned log-likelihood: NaN, or 0.5*(log(absdet) + sum(log(ivar/2pi)))
\* - 0.5*chi2, kept as the quantities it is computed from.
LnLikeNaN == [kind |-> "nan", absdet |-> NaN, ivar |-> <<>>, chi2 |-> NaN]
LnLike(absdet, ivar, chi2) == [kind |-> "finite", absdet |-> absdet, ivar |-> ivar, chi2 |-> chi2]

\* marginal_ln_likelihood(nonlinear_p, data)
marginal_ln_likelihood(nonlinear_p, data) ==
  LET A == call_design_matrix(<<nonlinear_p, data>>) IN
    IF A.exc # OK THEN Res(A.exc, LnLikeNaN)
    ELSE LET s == nonlinear_p[5]
             ivar == get_ivar(data, s)
             t == tensor_vector_scalar(A.obj, ivar, data.rv)
         IN IF t.exc # OK THEN Res(t.exc, LnLikeNaN)
            ELSE LET sl == linalg_slogdet(t.ATCinvA) IN
              IF sl.sign # 1 THEN Res(OK, LnLikeNaN)
              ELSE Res(OK, LnLike(sl.absdet, ivar, t.chi2))

\* A caller's loop over a batch of parameter vectors: an exception raised by
\* one evaluation leaves the loop.
RECURSIVE eval_batch(_, _)
eval_batch(ps, data) ==
  IF ps = <<>> THEN Res(OK, <<>>)
  ELSE LET r == marginal_ln_likelihood(Head(ps), data) IN
    IF r.exc # OK THEN Res(r.exc, <<>>)
    ELSE LET rest == eval_batch(Tail(ps), data) IN
      IF rest.exc # OK THEN rest ELSE Res(OK, <<r.obj>> \o rest.obj)

\* ------------------------------------------------------------------ inputs
Shapes == {<<>>, <<1, 2>>} \cup {<<n>> : n \in 0..MaxLen}
Variants == {1, 2}

\* A caller's array of the given shape: distinct, ascending elements.
InArr(sh, v) == Arr(sh, [i \in 1..Prod(sh) |-> Num(v + i - 1)], ArgMem(v), 0)
InArrs == {InArr(sh, v) : sh \in Shapes, v \in Variants}
FewArrs == {InArr(sh, 2) : sh \in {<<>>, <<MaxLen>>}}

InvalidKeys == {"Omega"}
Keys == Range(valid_keys) \cup InvalidKeys

Times == {None, Some(Time("tcb", 1)), Some(Time("utc", 1)), Some(Numeric(1))}

OrbitKeys == <<"P", "e", "omega", "M0", "K", "v0">>
FullKw(sh) == [i \in 1..Len(OrbitKeys) |-> <<OrbitKeys[i], InArr(sh, i)>>]

Kwargs == {<<>>} \cup {FullKw(sh) : sh \in Shapes}
           \cup {<<<<k, a>>>> : k \in {"P", "Omega"}, a \in InArrs}
           \cup {<<<<"P", InArr(<<MaxLen>>, 1)>>, <<k, a>>>> : k \in {"e", "Omega"}, a \in InArrs}
FewKwargs == {<<>>, FullKw(<<MaxLen>>), FullKw(<<>>), FullKw(<<1, 2>>),
              <<<<"jitter", InArr(<<MaxLen>>, 1)>>, <<"P", InArr(<<MaxLen>>, 2)>>>>,
              <<<<"P", InArr(<<MaxLen>>, 1)>>, <<"Omega", InArr(<<MaxLen>>, 1)>>>>}

Slots == {1, 2}
Stored0(c) == cont[c][1]
WriteKeys == {"P", "K"}
SliceBounds == (-1)..(MaxLen + 1)
ForeignNames == InvalidKeys \cup {"t0"}
Counts == {None} \cup {Some(n) : n \in 0..MaxLen}
Indexes == (-1)..MaxLen

\* Observation sets: times, time offset, velocities, inverse variances.
RVData(t, off, rv) == [t |-> t, t_offset |-> off, rv |-> [i \in 1..Len(rv) |-> Num(rv[i])],
                       ivar |-> [i \in 1..Len(t) |-> Num(1)]]
DataSets == {RVData(<<0, 1>>, 0, <<1, 2>>), RVData(<<0, 1>>, 1, <<0, 1>>),
             RVData(<<0, 1, 2>>, 0, <<1, 0, 1>>), RVData(<<0, 1, 2>>, 1, <<0, 1, 3>>)}
\* (P, phi0, ecc, omega, jitter)
Params == {<<P, phi0, 0, 0, s>> : P \in 1..(MaxEntry + 1), phi0 \in 0..1, s \in 0..1}
JParams == {[n_terms |-> n] : n \in 1..2}

Entries == {Num(x) : x \in 0..MaxEntry}
Matrices == UNION {[1..r -> [1..2 -> Entries]] : r \in 2..3}
IVars == {<<Num(1), Num(1)>>, <<Num(1), Num(2)>>, <<Num(0 - 1), Num(1)>>, <<Num(1), Num(1), Num(1)>>}
YVecs == {<<Num(0), Num(1)>>, <<Num(1), Num(1)>>, <<Num(1), Num(0), Num(2)>>}

\* The threads that call get_orbit on one container, and a thread outside a
\* call: where it is in get_orbit, its argument and its local variables.
Threads == {1, 2}
ThrIdle == [pc |-> "idle", index |-> 0, el |-> 0, P |-> <<>>, e |-> <<>>, a |-> <<>>]

Lik(op, res) == [op |-> op, res |-> res, A |-> <<>>, ps |-> <<>>, data |-> <<>>]
Dicts == {1, 2}

Last(op, c, key, vshape, exc) ==
  [op |-> op, c |-> c, key |-> key, vshape |-> vshape, exc |-> exc,
   arg |-> <<>>, rsize |-> None, rshape |-> None]

\* ----------------------------------------------------------------- actions
Init ==
  /\ cont = [c \in Slots |-> None]
  /\ nops = 0
  /\ last = Last("none", 0, "", None, OK)
  /\ sink = None
  /\ caches = [d \in Dicts |-> None]
  /\ elems = [d \in Dicts |-> TemplateElements(None)]
  /\ held = <<>>
  /\ gens = <<>>
  /\ lik = Lik("none", <<>>)
  /\ thr = [t \in Threads |-> ThrIdle]

\* s = JokerSamples(t0=t0, **kw): no object exists when __init__ raises.
ConstructIn(TS, KW) ==
  /\ UNCHANGED <<orbVars, lik, thr>>
  /\ cont[1] = None
  /\ \E t0 \in TS, kw \in KW :
       LET r == init(t0, kw, 1, 1) IN
         /\ cont' = IF r.exc = OK THEN [cont EXCEPT ![1] = Some(r.obj)] ELSE cont
         /\ last' = Last("Construct", 1, "", None, r.exc)
  /\ UNCHANGED <<nops, sink>>

\* s[key] = val
SetIn(KS, VS) ==
  /\ UNCHANGED <<orbVars, lik, thr>>
  /\ \E c \in Slots, key \in KS, val \in VS :
    /\ cont[c] # None
    /\ nops < MaxOps
    /\ LET r == setitem(cont[c][1], c, key, val) IN
         /\ cont' = [cont EXCEPT ![c] = Some(r.obj)]
         /\ nops' = IF r.exc = OK THEN nops + 1 ELSE nops
         /\ last' = Last("Set", c, key, Some(val.shape), r.exc)
    /\ UNCHANGED sink

\* s[key] for a string key
Get ==
  /\ UNCHANGED <<orbVars, lik, thr>>
  /\ \E c \in Slots, key \in Keys :
    /\ cont[c] # None
    /\ LET r == getitem_str(cont[c][1], key) IN
         last' = [Last("Get", c, key, None, r.exc) EXCEPT
                    !.rshape = IF r.exc = OK THEN Some(r.obj.shape) ELSE None]
    /\ UNCHANGED contVars

\* s.size
Size ==
  /\ UNCHANGED <<orbVars, lik, thr>>
  /\ \E c \in Slots :
    /\ cont[c] # None
    /\ LET r == size(cont[c][1]) IN
         last' = [Last("Size", c, "", None, r.exc) EXCEPT !.rsize = r.obj]
    /\ UNCHANGED contVars

\* s.shape
Shape ==
  /\ UNCHANGED <<orbVars, lik, thr>>
  /\ \E c \in Slots :
    /\ cont[c] # None
    /\ LET r == shape(cont[c][1]) IN
         last' = [Last("Shape", c, "", None, r.exc) EXCEPT !.rshape = r.obj]
    /\ UNCHANGED contVars

\* The result of an operation that makes a container lands in slot 2.
Derive(op, arg, r) ==
  /\ cont[1] # None
  /\ cont[2] = None
  /\ nops < MaxOps
  /\ cont' = IF r.exc = OK THEN [cont EXCEPT ![2] = Some(r.obj)] ELSE cont
  /\ nops' = IF r.exc = OK THEN nops + 1 ELSE nops
  /\ last' = [Last(op, 1, "", None, r.exc) EXCEPT !.arg = arg]

\* d = s[i:j]
Slice ==
  /\ UNCHANGED <<orbVars, lik, thr>>
  /\ cont[1] # None
  /\ \E i \in SliceBounds, j \in SliceBounds :
       Derive("Slice", <<i, j>>, getitem_slice(cont[1][1], 2, 2, i, j))
  /\ UNCHANGED sink

\* d = s.mean(), s.median(), s.std()
Mean ==
  /\ UNCHANGED <<orbVars, lik, thr>>
  /\ cont[1] # None
  /\ Derive("Mean", <<>>, mean(cont[1][1], 2, 2))
  /\ UNCHANGED sink

Median ==
  /\ UNCHANGED <<orbVars, lik, thr>>
  /\ cont[1] # None
  /\ Derive("Median", <<>>, median(cont[1][1], 2, 2))
  /\ UNCHANGED sink

Std ==
  /\ UNCHANGED <<orbVars, lik, thr>>
  /\ cont[1] # None
  /\ Derive("Std", <<>>, std(cont[1][1], 2, 2))
  /\ UNCHANGED sink

\* s[key][idx] = v: s[key] is the stored array itself, written in place.
WriteArray ==
  /\ UNCHANGED <<orbVars, lik, thr>>
  /\ \E c \in Slots, key \in WriteKeys :
    /\ cont[c] # None
    /\ nops < MaxOps
    /\ key \in DOMAIN cont[c][1].store
    /\ LET a == cont[c][1].store[key] IN
         \E idx \in 1..Len(a.data) :
           cont' = WriteMem(cont, a.mem, a.off + idx - 1, Num(0))
    /\ nops' = nops + 1
    /\ last' = Last("WriteArray", c, key, None, OK)
    /\ UNCHANGED sink

\* s.to_hdf5(f) with f a new, empty group; what was written before a raise
\* stays written.
Persist ==
  /\ UNCHANGED <<orbVars, lik, thr>>
  /\ \E c \in Slots :
    /\ cont[c] # None
    /\ sink = None
    /\ nops < MaxOps
    /\ LET r == to_hdf5(cont[c][1], EmptyFile) IN
         /\ sink' = Some(r.obj)
         /\ last' = Last("Persist", c, "", None, r.exc)
    /\ nops' = nops + 1
    /\ UNCHANGED cont

\* Another writer puts a dataset of its own into the group.
WriteForeign ==
  /\ UNCHANGED <<orbVars, lik, thr>>
  /\ sink # None
  /\ \E name \in ForeignNames :
       /\ name \notin DOMAIN sink[1].ds
       /\ sink' = Some(quantity_to_hdf5(sink[1], name, InArr(<<MaxLen + 1>>, 1)))
  /\ UNCHANGED <<cont, nops, last>>

\* d = JokerSamples.from_hdf5(f, n)
Restore ==
  /\ UNCHANGED <<orbVars, lik, thr>>
  /\ sink # None
  /\ \E n \in Counts : Derive("Restore", n, from_hdf5(sink[1], n, 2, 2))
  /\ UNCHANGED sink

\* What the caller holds of a returned orbit: the object, the index it asked
\* for and the container it asked.
Held(o, c, index, g) == [orbit |-> o, c |-> c, index |-> index, gen |-> g]

\* o = s.get_orbit(index)
GetOrbit ==
  /\ Len(held) < MaxHeld
  /\ \E c \in Slots, index \in Indexes :
       /\ cont[c] # None
       /\ LET r == get_orbit(Stored0(c), index, caches, elems) IN
            /\ caches' = r.caches
            /\ elems' = r.elems
            /\ held' = IF r.exc = OK THEN Append(held, Held(r.orbit, c, index, 0)) ELSE held
            /\ last' = [Last("GetOrbit", c, "", None, r.exc) EXCEPT !.arg = <<index>>]
  /\ UNCHANGED <<contVars, gens, lik, thr>>

\* g = s.orbits: a new generator; its body has not started.
OrbitsOpen ==
  /\ Len(gens) < MaxGens
  /\ \E c \in Slots :
       /\ cont[c] # None
       /\ gens' = Append(gens, [c |-> c, pc |-> "new", n |-> 0, i |-> 0])
       /\ last' = Last("OrbitsOpen", c, "", None, OK)
  /\ UNCHANGED <<contVars, caches, elems, held, lik, thr>>

\* next(g): the body runs to its next yield: for i in range(len(self)):
\* yield self.get_orbit(i).  len(self) is evaluated once, at the start; an
\* exception ends the generator.
OrbitsNext ==
  /\ Len(held) < MaxHeld
  /\ \E g \in 1..Len(gens) :
       LET G == gens[g]
           self == Stored0(G.c)
           ln == IF G.pc = "new" THEN len(self) ELSE Res(OK, Some(G.n))
           n == IF ln.exc = OK THEN ln.obj[1] ELSE 0
           r == get_orbit(self, G.i, caches, elems)
       IN /\ G.pc \in {"new", "run"}
          /\ IF ln.exc # OK
             THEN /\ gens' = [gens EXCEPT ![g].pc = "raised"]
                  /\ last' = [Last("OrbitsNext", G.c, "", None, ln.exc) EXCEPT !.arg = <<g>>]
                  /\ UNCHANGED <<caches, elems, held>>
             ELSE IF G.i >= n
             THEN /\ gens' = [gens EXCEPT ![g].pc = "done", ![g].n = n]
                  /\ last' = [Last("OrbitsNext", G.c, "", None, "StopIteration") EXCEPT !.arg = <<g>>]
                  /\ UNCHANGED <<caches, elems, held>>
             ELSE /\ caches' = r.caches
                  /\ elems' = r.elems
                  /\ held' = IF r.exc = OK THEN Append(held, Held(r.orbit, G.c, G.i, g)) ELSE held
                  /\ gens' = IF r.exc = OK
                             THEN [gens EXCEPT ![g].pc = "run", ![g].n = n, ![g].i = G.i + 1]
                             ELSE [gens EXCEPT ![g].pc = "raised", ![g].n = n]
                  /\ last' = [Last("OrbitsNext", G.c, "", None, r.exc) EXCEPT !.arg = <<g>>]
  /\ UNCHANGED <<contVars, lik, thr>>

\* get_orbit run by threads on the container of slot 1, a line of the method
\* at a time.  Thread t enters get_orbit(index).
T_Call(t) ==
  /\ thr[t].pc = "idle"
  /\ cont[1] # None
  /\ nops < MaxOps
  /\ nops' = nops + 1
  /\ \E index \in Indexes :
       thr' = [thr EXCEPT ![t] = [ThrIdle EXCEPT !.pc = "check", !.index = index]]
  /\ UNCHANGED <<cont, sink, last, orbVars, lik>>

\* if 'orbit' not in self._cache
T_Check(t) ==
  /\ thr[t].pc = "check"
  /\ thr' = [thr EXCEPT ![t].pc = IF caches[Stored0(1).cache] = None THEN "build" ELSE "copy"]
  /\ UNCHANGED <<contVars, last, orbVars, lik>>

\* self._cache['orbit'] = KeplerOrbit(...); the elements object the thread
\* constructs is named after the thread.
T_Build(t) ==
  /\ thr[t].pc = "build"
  /\ caches' = [caches EXCEPT ![Stored0(1).cache] = Some(Orbit(t, None))]
  /\ elems' = [elems EXCEPT ![t] = TemplateElements(Stored0(1).t0)]
  /\ thr' = [thr EXCEPT ![t].pc = "copy"]
  /\ UNCHANGED <<contVars, last, held, gens, lik>>

\* orbit = copy.copy(self._cache['orbit'])
T_Copy(t) ==
  /\ thr[t].pc = "copy"
  /\ thr' = [thr EXCEPT ![t].pc = "read",
                        ![t].el = copy_orbit(caches[Stored0(1).cache][1], 0).elements]
  /\ UNCHANGED <<contVars, last, orbVars, lik>>

\* P = self['P'][index]; e = self['e'][index]; a_K = ...: an exception ends
\* the call.
T_Read(t) ==
  /\ thr[t].pc = "read"
  /\ LET P == sample(Stored0(1), "P", thr[t].index)
         e == sample(Stored0(1), "e", thr[t].index)
         K == sample(Stored0(1), "K", thr[t].index)
         exc == IF P.exc # OK THEN P.exc ELSE IF e.exc # OK THEN e.exc ELSE K.exc
     IN IF exc # OK
        THEN /\ thr' = [thr EXCEPT ![t] = ThrIdle]
             /\ last' = [Last("GetOrbit", 1, "", None, exc) EXCEPT !.arg = <<thr[t].index, t>>]
        ELSE /\ thr' = [thr EXCEPT ![t].pc = "P", ![t].P = P.obj, ![t].e = e.obj,
                                   ![t].a = a_K(P.obj, K.obj, e.obj)]
             /\ UNCHANGED last
  /\ UNCHANGED <<contVars, orbVars, lik>>

\* orbit.elements._P = P, ._e = e, ._a = a_K, ._omega = ..., ._M0 = ...: one
\* assignment
T_Write(t) ==
  /\ thr[t].pc \in {"P", "e", "a", "omega", "M0"}
  /\ LET T == thr[t]
         omega == sample(Stored0(1), "omega", T.index)
         M0 == sample(Stored0(1), "M0", T.index)
     IN /\ elems' = [elems EXCEPT ![T.el] =
                       CASE T.pc = "P" -> [@ EXCEPT !.P = T.P]
                         [] T.pc = "e" -> [@ EXCEPT !.e = T.e]
                         [] T.pc = "a" -> [@ EXCEPT !.a = T.a]
                         [] T.pc = "omega" -> [@ EXCEPT !.omega = omega.obj]
                         [] T.pc = "M0" -> [@ EXCEPT !.M0 = M0.obj]]
        /\ thr' = [thr EXCEPT ![t].pc =
                       CASE T.pc = "P" -> "e" [] T.pc = "e" -> "a" [] T.pc = "a" -> "omega"
                         [] T.pc = "omega" -> "M0" [] T.pc = "M0" -> "v0"]
  /\ UNCHANGED <<contVars, last, caches, held, gens, lik>>

\* orbit._v0 = self['v0'][index]; return orbit
T_Return(t) ==
  /\ thr[t].pc = "v0"
  /\ LET v0 == sample(Stored0(1), "v0", thr[t].index) IN
       /\ held' = Append(held, Held(Orbit(thr[t].el, Some(v0.obj)), 1, thr[t].index, 0))
       /\ last' = [Last("GetOrbit", 1, "", None, OK) EXCEPT !.arg = <<thr[t].index, t>>]
  /\ thr' = [thr EXCEPT ![t] = ThrIdle]
  /\ UNCHANGED <<contVars, caches, elems, gens, lik>>

\* A = design_matrix(p, data, jparams)
EvalDesignMatrix ==
  /\ lik.op = "none"
  /\ \E p \in Params, data \in DataSets, jp \in JParams :
       lik' = [Lik("design_matrix", call_design_matrix(<<p, data, jp>>))
                 EXCEPT !.ps = <<p>>, !.data = Some(data)]
  /\ UNCHANGED <<contVars, last, orbVars, thr>>

\* tensor_vector_scalar(A, ivar, y), called on its own
EvalTensorVectorScalar ==
  /\ lik.op = "none"
  /\ \E A \in Matrices, ivar \in IVars, y \in YVecs :
       lik' = [Lik("tensor_vector_scalar", tensor_vector_scalar(A, ivar, y))
                 EXCEPT !.A = A]
  /\ UNCHANGED <<contVars, last, orbVars, thr>>

\* marginal_ln_likelihood(p, data)
EvalMarginal ==
  /\ lik.op = "none"
  /\ \E p \in Params, data \in DataSets :
       lik' = [Lik("marginal_ln_likelihood", marginal_ln_likelihood(p, data))
                 EXCEPT !.ps = <<p>>, !.data = Some(data)]
  /\ UNCHANGED <<contVars, last, orbVars, thr>>

\* the evaluator over a batch of parameter vectors and one observation set
EvalBatch ==
  /\ lik.op = "none"
  /\ \E n \in 1..MaxBatch : \E ps \in [1..n -> Params], data \in DataSets :
       lik' = [Lik("batch", eval_batch(ps, data)) EXCEPT !.ps = ps, !.data = Some(data)]
  /\ UNCHANGED <<contVars, last, orbVars, thr>>

\* The container's life: construction, assignment and the two queries.
Construct == ConstructIn({None, Some(Time("tcb", 1))}, Kwargs)
Set == SetIn(Keys, {InArr(sh, 2) : sh \in Shapes})
NextSet == Construct \/ Set \/ Size \/ Shape
SpecSet == Init /\ [][NextSet]_vars

\* Every operation, on a smaller family of inputs.
ConstructFew == ConstructIn(Times, FewKwargs)
SetFew == SetIn(Keys, FewArrs)
Next == ConstructFew \/ SetFew \/ Size \/ Shape \/ Slice \/ Mean \/ Median \/ Std
          \/ WriteArray \/ Persist \/ Restore
Spec == Init /\ [][Next]_vars

\* Lookups by name, between construction and assignments.
NextGet == ConstructFew \/ SetFew \/ Get
SpecGet == Init /\ [][NextGet]_vars

\* The likelihood functions are pure: a behaviour is one call, on inputs drawn
\* from small sets.
NextLik == EvalDesignMatrix \/ EvalTensorVectorScalar \/ EvalMarginal \/ EvalBatch
SpecLik == Init /\ [][NextLik]_vars

\* The reductions, on containers of every shape up to one row more than
\* MaxLen, with samples that are not evenly spaced.
SkewArr(sh, v) == Arr(sh, [i \in 1..Prod(sh) |-> Num(v + i * i)], ArgMem(v), 0)
ReduceShapes == Shapes \cup {<<MaxLen + 1>>}
ReduceKwargs == {<<>>} \cup {<<<<"P", SkewArr(sh, 0)>>>> : sh \in ReduceShapes}
                  \cup {<<<<"K", InArr(sh, 1)>>, <<"P", SkewArr(sh, 1)>>>> : sh \in ReduceShapes}
ConstructReduce == ConstructIn(Times, ReduceKwargs)
NextReduce == ConstructReduce \/ Mean \/ Median \/ Std \/ Size \/ Shape
SpecReduce == Init /\ [][NextReduce]_vars

\* Orbit reconstruction from a container and from its slices.
OrbKwargs == {<<>>, FullKw(<<MaxLen>>), FullKw(<<>>), FullKw(<<1, 2>>),
              SubSeq(FullKw(<<MaxLen>>), 1, 3)}
ConstructOrb == ConstructIn({None, Some(Time("tcb", 1))}, OrbKwargs)
NextOrbit == ConstructOrb \/ GetOrbit \/ OrbitsOpen \/ OrbitsNext
SpecOrbit == Init /\ [][NextOrbit]_vars

\* Persistence: a group written by to_hdf5, and by others, is read back.
NextRestore == ConstructFew \/ Persist \/ WriteForeign \/ Restore
SpecRestore == Init /\ [][NextRestore]_vars

\* get_orbit called from two threads on one container that is not written.
ThrKwargs == {FullKw(<<MaxLen>>), FullKw(<<>>)}
ConstructThr == ConstructIn({Some(Time("tcb", 1))}, ThrKwargs)
Thread(t) == T_Call(t) \/ T_Check(t) \/ T_Build(t) \/ T_Copy(t) \/ T_Read(t)
               \/ T_Write(t) \/ T_Return(t)
NextThreads == ConstructThr \/ \E t \in Threads : Thread(t)
SpecThreads == Init /\ [][NextThreads]_vars

\* Orbit reconstruction from a container and from a slice of it.
NextCache == ConstructOrb \/ Slice \/ GetOrbit
SpecCache == Init /\ [][NextCache]_vars

\* ------------------------------------------------------------------ claims
Stored(c) == cont[c][1]
KeySet(c) == Range(Stored(c).keys)

\* What the container's arrays agree on: every stored array has the shape the
\* container reports.  (Holds; it is the first half of C1.)
ShapesAgree ==
  \A c \in Slots : cont[c] # None =>
    /\ DOMAIN Stored(c).store = KeySet(c)
    /\ (KeySet(c) = {}) <=> (Stored(c).shape = None)
    /\ \A k \in KeySet(c) : Stored(c).shape = Some(Stored(c).store[k].shape)

\* C1: after any Construct and Set calls every stored array has the shape that
\* Shape reports, and a Set (of a valid key) whose value has another shape than
\* the established one, a scalar-shaped value included, raises ShapeMismatch.
C1_ShapeInvariant ==
  /\ ShapesAgree
  /\ (last.op = "Set" /\ last.key \in Range(valid_keys)
        /\ last.vshape # Stored(last.c).shape)
       => last.exc = ShapeMismatch

\* The names the specification lists as the closed set of valid keys.
C2_Names == {"P", "M0", "e", "omega", "jitter", "K", "v0"}

\* C2: Set fails with InvalidKey exactly when the key is none of the seven
\* names, and no container ever stores a key outside them.
C2_InvalidKeyExactly ==
  /\ last.op = "Set" => ((last.exc = InvalidKey) <=> (last.key \notin C2_Names))
  /\ \A c \in Slots : cont[c] # None =>
       KeySet(c) \subseteq C2_Names /\ DOMAIN Stored(c).store \subseteq C2_Names

C2_Witness ==
  /\ last.op = "Set" /\ last.exc = InvalidKey /\ last.c = 2
  /\ Len(Stored(2).keys) > 1

\* C3: Size and Shape raise NoSamplesStored on a container that holds no key;
\* on one that holds a key they return the number of elements and the shape
\* of its first array.
C3_SizeShape ==
  (last.op \in {"Size", "Shape"}) =>
    LET s == Stored(last.c) IN
      IF s.keys = <<>> THEN last.exc = NoSamplesStored
      ELSE /\ last.exc = OK
           /\ last.op = "Shape" => last.rshape = Some(s.store[s.keys[1]].shape)
           /\ last.op = "Size" => last.rsize = Some(Len(s.store[s.keys[1]].data))

C3_Witness ==
  /\ last.op = "Size" /\ last.exc = OK /\ last.rsize = Some(2)
  /\ nops > 0 /\ Stored(last.c).shape = Some(<<1, 2>>)

\* The elements i:j of a sequence of rows (w elements each), as Python slices.
PySlice(data, n, w, i, j) ==
  LET lo == IF i < 0 THEN (IF n + i < 0 THEN 0 ELSE n + i) ELSE (IF i > n THEN n ELSE i)
      hi == IF j < 0 THEN (IF n + j < 0 THEN 0 ELSE n + j) ELSE (IF j > n THEN n ELSE j)
  IN [p \in 1..(IF hi > lo THEN (hi - lo) * w ELSE 0) |-> data[lo * w + p]]

\* The container in slot 2 is the slice i:j of the one in slot 1.
IsSliceOf(d, s, i, j) ==
  /\ d.keys = s.keys
  /\ DOMAIN d.store = DOMAIN s.store
  /\ \A k \in DOMAIN s.store :
       LET a == s.store[k] IN
          /\ d.store[k].data = PySlice(a.data, a.shape[1], Prod(Tail(a.shape)), i, j)
          /\ Tail(d.store[k].shape) = Tail(a.shape)
          /\ d.shape = Some(d.store[k].shape)
          /\ d.size = Some(Len(d.store[k].data))
          /\ Prod(d.store[k].shape) = Len(d.store[k].data)

Populated(s) == s.keys # <<>>
ScalarShaped(s) == s.shape = Some(<<>>)

\* C4 as stated: slicing any populated container succeeds and gives the
\* slice of every key.
C4_SliceAnyPopulated ==
  [][(last'.op = "Slice" /\ Populated(Stored(1)))
       => (last'.exc = OK /\ cont'[2] # None
           /\ IsSliceOf(cont'[2][1], Stored(1), last'.arg[1], last'.arg[2]))]_vars

\* C4, amended: slicing a populated container whose arrays have at least one
\* axis gives a new container with the same keys, under every key the slice
\* of the original's array, with shape and size those of the sliced arrays;
\* slicing a scalar-shaped container raises TypeError; either way the
\* original is unchanged, and no later write to the other container's arrays
\* or keys changes it.
C4_Slice ==
  [][/\ (last'.op = "Slice" /\ Populated(Stored(1)) /\ ~ScalarShaped(Stored(1)))
          => (last'.exc = OK /\ cont'[2] # None
              /\ IsSliceOf(cont'[2][1], Stored(1), last'.arg[1], last'.arg[2]))
     /\ (last'.op = "Slice" /\ ScalarShaped(Stored(1)))
          => (last'.exc = TypeError /\ cont'[2] = None)
     /\ last'.op = "Slice" => cont'[1] = cont[1]
     /\ (last'.op \in {"Set", "WriteArray"} /\ last'.c = 2) => cont'[1] = cont[1]
    ]_vars

\* a slice was taken, and then one of its arrays written in place
C4_Witness ==
  /\ last.op = "WriteArray" /\ last.c = 2
  /\ cont[1] # None /\ cont[2] # None
  /\ Stored(2).keys = Stored(1).keys
  /\ Stored(2).shape = Some(<<1>>) /\ Stored(1).shape = Some(<<MaxLen>>)
  /\ Stored(2).store["P"].data # SubSeq(Stored(1).store["P"].data, 1, 1)
  /\ Stored(2).store["P"].data # SubSeq(Stored(1).store["P"].data, 2, 2)

\* The instant of a reference epoch, on the TCB scale (a bare number is taken
\* as a barycentric MJD).
Instant(t) == IF t.kind = "Time" THEN tcb_mjd(t) ELSE t.mjd

SameEpoch(a, b) ==
  \/ a = None /\ b = None
  \/ a # None /\ b # None /\ Instant(a[1]) = Instant(b[1])

\* the same keys, the same values under every key, the same reference epoch
SameSamples(a, b) ==
  /\ Range(a.keys) = Range(b.keys)
  /\ DOMAIN a.store = DOMAIN b.store
  /\ \A k \in DOMAIN a.store :
       a.store[k].shape = b.store[k].shape /\ a.store[k].data = b.store[k].data
  /\ SameEpoch(a.t0, b.t0)

HasSamples(s) == Populated(s) /\ s.size # None /\ s.size[1] >= 1

\* Restore without a count, right after Persist, of a container that has
\* samples
RoundTripStep ==
  /\ last.op = "Persist" /\ last'.op = "Restore" /\ last'.arg = None
  /\ HasSamples(Stored(last.c))

RoundTripDone ==
  /\ last.exc = OK /\ last'.exc = OK /\ cont'[2] # None
  /\ SameSamples(cont'[2][1], Stored(last.c))

\* C6: Persist followed by Restore without a count gives back a container
\* equal to the persisted one (keys, values, reference epoch), for every
\* container with at least one key and one sample.
C6_RoundTrip == [][RoundTripStep => RoundTripDone]_vars

\* The round trip does hold for every container whose reference epoch is
\* unset or a Time.
RoundTripUnlessNumeric ==
  [][(RoundTripStep /\ (Stored(last.c).t0 = None \/ Stored(last.c).t0[1].kind = "Time"))
       => RoundTripDone]_vars

\* Row index of the array under key, as the elements it holds (one-dimensional
\* arrays: one element).
RowVal(s, key, index) ==
  LET a == s.store[key]
      n == a.shape[1]
      r == IF index < 0 THEN n + index ELSE index
      w == Len(a.data) \div n
  IN [p \in 1..w |-> a.data[r * w + p]]

\* The held orbit h now has the elements and v0 of the row it was asked for.
OrbitIsRow(h) ==
  LET s == Stored(h.c)
      E == elems[h.orbit.elements]
  IN /\ E.P = RowVal(s, "P", h.index)
     /\ E.e = RowVal(s, "e", h.index)
     /\ E.omega = RowVal(s, "omega", h.index)
     /\ E.M0 = RowVal(s, "M0", h.index)
     /\ E.a = <<RowVal(s, "P", h.index), RowVal(s, "K", h.index), RowVal(s, "e", h.index)>>
     /\ h.orbit.v0 = Some(RowVal(s, "v0", h.index))

\* C5: every orbit GetOrbit returned keeps the elements and v0 of its row
\* whatever GetOrbit calls follow, and the cached template keeps the
\* placeholder elements it was built with.
C5_OrbitsIndependent ==
  /\ \A i \in 1..Len(held) : OrbitIsRow(held[i])
  /\ \A c \in Slots : (cont[c] # None /\ caches[Stored(c).cache] # None) =>
       elems[caches[Stored(c).cache][1].elements] = TemplateElements(Stored(c).t0)

\* The orbits generator g has yielded so far, in this order.
YieldsOf(g) == SelectSeq(held, LAMBDA h : h.gen = g)

HasOrbitKeys(s) == Range(OrbitKeys) \subseteq DOMAIN s.store
OneDim(s) == s.shape # None /\ Len(s.shape[1]) = 1

InIndexOrder(g) ==
  LET y == YieldsOf(g) IN
    /\ \A k \in 1..Len(y) : y[k].index = k - 1
    /\ gens[g].pc # "raised"
    /\ gens[g].pc = "done" => Len(y) = Stored(gens[g].c).size[1]

\* C10: over a container of N samples (one-dimensional arrays, the orbit keys
\* populated) an Orbits sequence yields N objects, the k-th being the orbit
\* of row k, in index order, and ends; every sequence starts at index 0.
C10_OrbitsSequence ==
  \A g \in 1..Len(gens) :
    (HasOrbitKeys(Stored(gens[g].c)) /\ OneDim(Stored(gens[g].c))) =>
      /\ InIndexOrder(g)
      /\ \A k \in 1..Len(YieldsOf(g)) : OrbitIsRow(YieldsOf(g)[k])

\* What does hold of such a sequence: the indices come in order from 0, the
\* sequence ends after N yields, and each object is the orbit of its row at
\* the moment it is yielded.
OrbitsYieldInOrder ==
  /\ \A g \in 1..Len(gens) :
       (HasOrbitKeys(Stored(gens[g].c)) /\ OneDim(Stored(gens[g].c))) => InIndexOrder(g)
  /\ (last.op \in {"OrbitsNext", "GetOrbit"} /\ last.exc = OK) => OrbitIsRow(held[Len(held)])


\* --------------------------------------------------------- likelihood claims
\* The trend of the evaluator's design matrix: one constant velocity offset.
OneTerm == [n_terms |-> 1]

\* The precision matrix A.diag(ivar).A^T of a design matrix with one row per
\* linear parameter.
Precision(A, ivar) ==
  MatMul([j \in 1..Len(A) |-> [i \in 1..Len(ivar) |-> RMul(A[j][i], ivar[i])]], Transpose(A))

\* The precision matrix of the evaluation of p on data.
PrecisionOf(p, data) == Precision(design_matrix(p, data, OneTerm), get_ivar(data, p[5]))

RankDeficient(p, data) == Det(PrecisionOf(p, data)).n = 0

\* C7: marginal_ln_likelihood returns without raising; it returns NaN when
\* the design matrix is rank-deficient, a finite value otherwise, and the
\* finite value exactly when the sign of the precision matrix's log-determinant
\* is +1.
C7_StabilityGate ==
  lik.op = "marginal_ln_likelihood" =>
    LET p == lik.ps[1]
        data == lik.data[1]
    IN /\ lik.res.exc = OK
       /\ RankDeficient(p, data) => lik.res.obj.kind = "nan"
       /\ ~RankDeficient(p, data) => lik.res.obj.kind = "finite"
       /\ lik.res.obj.kind = "finite" <=> linalg_slogdet(PrecisionOf(p, data)).sign = 1

\* marginal_ln_likelihood raises TypeError on every input: the call of
\* design_matrix lacks jparams.
MarginalAlwaysTypeError ==
  lik.op = "marginal_ln_likelihood" => lik.res.exc = TypeError

\* C8: when the precision matrix is exactly singular the solve's LinAlgError
\* leaves tensor_vector_scalar, and leaves marginal_ln_likelihood, which never
\* returns NaN for it.
C8_SingularFatal ==
  /\ (/\ lik.op = "tensor_vector_scalar"
      /\ lik.res.exc \in {OK, LinAlgError}
      /\ Det(lik.res.ATCinvA).n = 0) => lik.res.exc = LinAlgError
  /\ (/\ lik.op = "marginal_ln_likelihood"
      /\ RankDeficient(lik.ps[1], lik.data[1])) => lik.res.exc = LinAlgError

\* The part of C8 about tensor_vector_scalar: a singular precision matrix
\* makes it raise LinAlgError, a regular one makes it return.
SolveFailurePropagates ==
  (lik.op = "tensor_vector_scalar" /\ lik.res.exc \in {OK, LinAlgError}) =>
    (lik.res.exc = LinAlgError <=> Det(lik.res.ATCinvA).n = 0)

\* C9: a batch with a degenerate parameter vector is evaluated to the end:
\* NaN for the degenerate entries and a finite value for every other entry.
C9_BatchNeverAborted ==
  (/\ lik.op = "batch"
   /\ \E i \in 1..Len(lik.ps) : RankDeficient(lik.ps[i], lik.data[1])) =>
    /\ lik.res.exc = OK
    /\ Len(lik.res.obj) = Len(lik.ps)
    /\ \A i \in 1..Len(lik.ps) :
         lik.res.obj[i].kind =
           IF RankDeficient(lik.ps[i], lik.data[1]) THEN "nan" ELSE "finite"


\* ---------------------------------------------------------- reduction claims
\* The arithmetic mean and the (population) standard deviation of a sequence
\* of numbers; NaN for no numbers.
ArithMean(d) == IF d = <<>> THEN NaN ELSE RDiv(RSum(d), Num(Len(d)))
StdDev(d) ==
  IF d = <<>> THEN NaN
  ELSE Sqrt(RDiv(RSum([i \in 1..Len(d) |->
                   RMul(RSub(d[i], ArithMean(d)), RSub(d[i], ArithMean(d)))]),
                 Num(Len(d))))

\* The statistic each reduction is specified to compute; for Median that is
\* the mean (section 4.6 keeps the reference behaviour).
Statistic(op, d) == IF op = "Std" THEN StdDev(d) ELSE ArithMean(d)

Reductions == {"Mean", "Median", "Std"}

\* d holds, under the keys of s in the same order, the scalar-shaped
\* statistic op of each key's samples.
IsReductionOf(d, s, op) ==
  /\ d.keys = s.keys
  /\ DOMAIN d.store = DOMAIN s.store
  /\ d.shape = Some(<<>>)
  /\ \A k \in DOMAIN s.store :
       /\ d.store[k].shape = <<>>
       /\ d.store[k].data = <<Statistic(op, s.store[k].data)>>

C13_GetInvalidKey ==
  [][(last'.op = "Get" /\ last'.key \notin Range(valid_keys))
       => /\ last'.exc = InvalidKey
          /\ last'.exc = setitem(Stored(last'.c), last'.c, last'.key, InArr(<<>>, 1)).exc
          /\ cont' = cont]_vars

\* C13, amended: Get with a name outside the valid keys fails with the
\* KeyError of a missing key, as it does for a valid name that is not stored,
\* while Set raises InvalidKey for that name; Get of a stored name returns its
\* array; no Get changes the container.
C13_Get ==
  [][last'.op = "Get"
       => /\ last'.key \notin Range(valid_keys)
               => /\ last'.exc = KeyError
                  /\ setitem(Stored(last'.c), last'.c, last'.key, InArr(<<>>, 1)).exc = InvalidKey
          /\ last'.key \notin KeySet(last'.c) => last'.exc = KeyError
          /\ last'.key \in KeySet(last'.c)
               => /\ last'.exc = OK
                  /\ last'.rshape = Some(Stored(last'.c).store[last'.key].shape)
          /\ cont' = cont]_vars

\* a populated container was asked for a name outside the valid keys
C13_Witness ==
  /\ last.op = "Get"
  /\ last.key = "Omega"
  /\ last.exc = KeyError
  /\ cont[last.c] # None
  /\ Populated(Stored(last.c))


\* --------------------------------------------------------------- cache claims
\* The template orbit in the cache of the container s, if any.
CachedTemplate(cs, s) == cs[s.cache]

\* C14: the cache of a container made by slicing holds no template when the
\* slice is made, even when the parent's cache does, and a GetOrbit on the
\* parent or on the slice leaves the other container's cache as it was.
C14_SliceCacheIsolated ==
  [][/\ (last'.op = "Slice" /\ last'.exc = OK)
          => CachedTemplate(caches', cont'[2][1]) = None
     /\ (last'.op = "GetOrbit" /\ cont[1] # None /\ cont[2] # None)
          => \A c \in Slots \ {last'.c} :
               CachedTemplate(caches', Stored(c)) = CachedTemplate(caches, Stored(c))]_vars

\* The slice's cache is the parent's dictionary: copy.copy hands the parent's
\* _cache attribute to the new container.
SliceSharesCache ==
  (cont[1] # None /\ cont[2] # None) => Stored(2).cache = Stored(1).cache


\* --------------------------------------------------------- concurrency claims
\* The orbit returned last is the orbit of the row its caller asked for.
ReturnedIsRow == OrbitIsRow(held[Len(held)])

\* C15: while threads run get_orbit on a populated container that nobody
\* assigns to, no step changes the container or its arrays, and every call
\* returns the orbit of its row, as it would running alone.
C15_ConcurrentReads ==
  [][/\ cont[1] # None => cont' = cont
     /\ Len(held') = Len(held) + 1 => ReturnedIsRow']_vars

\* The half of C15 that holds: no step of get_orbit writes to the container.
ThreadsLeaveArrays == [][cont[1] # None => cont' = cont]_vars


\* ------------------------------------------------- likelihood value and call
\* The weighted linear solve on the design matrix of p: tensor_vector_scalar
\* takes the matrix with one row per observation.
SolveOf(p, data) ==
  tensor_vector_scalar(Transpose(design_matrix(p, data, OneTerm)),
                       get_ivar(data, p[5]), data.rv)

\* C16: when the sign of the precision matrix's log-determinant is +1,
\* marginal_ln_likelihood returns 0.5*(logdet + sum(log(ivar_eff/2pi)))
\* - 0.5*chi2, with ivar_eff the jitter-adjusted inverse variances and the
\* precision matrix and chi2 those of the weighted solve on the design matrix.
C16_Value ==
  (/\ lik.op = "marginal_ln_likelihood"
   /\ linalg_slogdet(PrecisionOf(lik.ps[1], lik.data[1])).sign = 1) =>
    LET p == lik.ps[1]
        data == lik.data[1]
    IN /\ lik.res.exc = OK
       /\ lik.res.obj = LnLike(linalg_slogdet(PrecisionOf(p, data)).absdet,
                               get_ivar(data, p[5]), SolveOf(p, data).chi2)

\* C17: the call marginal_ln_likelihood makes to design_matrix, with the
\* parameter vector and the observation set, is accepted, so the evaluation
\* gets to the weighted solve: it returns, or fails in the solve.
C17_BuilderCallAccepted ==
  lik.op = "marginal_ln_likelihood" =>
    /\ call_design_matrix(<<lik.ps[1], lik.data[1]>>).exc = OK
    /\ lik.res.exc \in {OK, LinAlgError}

\* design_matrix itself, given jparams as well, returns a matrix of one row
\* per linear parameter and one column per observation.
BuilderWithJParams ==
  lik.op = "design_matrix" =>
    /\ lik.res.exc = OK
    /\ Len(lik.res.obj) \in {2, 3}
    /\ \A j \in 1..Len(lik.res.obj) : Len(lik.res.obj[j]) = Len(lik.data[1].t)

\* ------------------------------------------------------------ restore claims
\* The first n rows of the array a (all of a when n is None or a has no rows
\* to count).
FirstRows(a, n) ==
  IF n = None \/ a.shape = <<>> THEN [shape |-> a.shape, data |-> a.data]
  ELSE LET rows == Min(n[1], a.shape[1])
           w == Prod(Tail(a.shape))
       IN [shape |-> <<rows>> \o Tail(a.shape), data |-> SubSeq(a.data, 1, rows * w)]

\* C18: Restore(source, count) gives a container whose keys are the valid
\* keys that name a dataset of the source (other datasets are ignored and
\* raise nothing), whose arrays are the source's, cut to their first count
\* rows when a count is given, and all of the shape and size it reports.
C18_Restore ==
  [][last'.op = "Restore"
       => LET f == sink[1]
              d == cont'[2][1]
          IN /\ last'.exc = OK
             /\ cont'[2] # None
             /\ Range(d.keys) = Range(valid_keys) \cap DOMAIN f.ds
             /\ DOMAIN d.store = Range(d.keys)
             /\ \A k \in DOMAIN d.store :
                  /\ [shape |-> d.store[k].shape, data |-> d.store[k].data]
                       = FirstRows(f.ds[k], last'.arg)
                  /\ d.shape = Some(d.store[k].shape)
                  /\ d.size = Some(Len(d.store[k].data))]_vars

\* a source holding a dataset under a foreign name was restored with a count
\* smaller than its number of rows
C18_Witness ==
  /\ last.op = "Restore"
  /\ last.arg = Some(1)
  /\ sink # None
  /\ "Omega" \in DOMAIN sink[1].ds
  /\ cont[2] # None
  /\ KeySet(2) = Range(OrbitKeys)
  /\ Stored(2).shape = Some(<<1>>)
  /\ sink[1].ds["P"].shape = <<MaxLen>>


\* --------------------------------------------------------------- frame claims
\* C19: a Set that fails leaves the container as it was: keys and their
\* order, arrays, shape, size and cache; after a failed Set on an empty
\* container Size and Shape still raise NoSamplesStored.
C19_FailedSetAtomic ==
  [][(last'.op = "Set" /\ last'.exc # OK)
       => /\ cont' = cont
          /\ caches' = caches
          /\ Stored(last'.c).keys = <<>>
               => /\ size(cont'[last'.c][1]).exc = NoSamplesStored
                  /\ shape(cont'[last'.c][1]).exc = NoSamplesStored]_vars

\* a Set on a populated container failed with ShapeMismatch, for a key the
\* container did not hold
C19_Witness ==
  /\ last.op = "Set"
  /\ last.exc = ShapeMismatch
  /\ cont[last.c] # None
  /\ Populated(Stored(last.c))
  /\ last.key \notin KeySet(last.c)

\* C20: the container Mean(), Median() or Std() returns has no reference
\* epoch, whatever the parent's; a slice has the parent's; the parent keeps
\* its own.
C20_EpochOfDerived ==
  [][/\ (last'.op \in Reductions /\ last'.exc = OK) => cont'[2][1].t0 = None
     /\ (last'.op = "Slice" /\ last'.exc = OK) => cont'[2][1].t0 = Stored(1).t0
     /\ last'.op \in Reductions \cup {"Slice"} => cont'[1][1].t0 = Stored(1).t0]_vars

\* a reduction was taken of a container whose reference epoch is set
C20_Witness ==
  /\ last.op = "Std"
  /\ last.exc = OK
  /\ cont[2] # None
  /\ Stored(1).t0 # None
  /\ Stored(2).t0 = None
  /\ Populated(Stored(2))

====
